---- MODULE Spec2Model ----
(***************************************************************************)
(* State-machine model of the TMDB harvesting engine that exists twice in  *)
(* the repository: build_top200_dataset.py ("build") and                   *)
(* Training/topup_tmdb_dataset.py ("topup").  One run is: credential       *)
(* check, the year x sort x page enumeration with a detail fetch per       *)
(* unseen entry, periodic partial saves, and the final full and balanced   *)
(* outputs.  Every HTTP GET is one step of the model.                      *)
(* SpecCrash adds a kill inside a partial save; SpecClassify and SpecFlush *)
(* exercise classify_roi and write_csv on their own.                       *)
(*                                                                         *)
(* Money is in millions, thresholds in tenths.  The remote service is the  *)
(* environment: each response (status, page content, budget/revenue) is    *)
(* chosen nondeterministically.  NEGATIVE_HUNT_ONLY is False in the source *)
(* and API_KEY is not the placeholder, so those branches are dead and      *)
(* are left out.                                                           *)
(***************************************************************************)
EXTENDS Integers, Sequences, FiniteSets, TLC

\* ------------------------------------------------------------------ bounds
MaxId == 2
MaxBatch == 1
NSorts == 2
NumYears == 1
PagesBound == 2
SaveBound == 2
Target == 1
MaxRuns == 2
MaxBudget == 10
MaxRevenue == 25
MaxFlushRows == 2
MaxFlushes == 2
MaxPool == 3

\* ------------------------------------------------------- program constants
retries == 3
YEAR_END == 2024
YEAR_START == YEAR_END - NumYears + 1
PAGES_PER_YEAR == PagesBound
SAVE_EVERY_ROWS == SaveBound
DESIRED_PER_CLASS == Target
TARGET_PER_CLASS == Target

Scripts == {"build", "topup"}

\* thresholds in tenths: 1.5 / 0.8 in build, 2.0 / 0.9 in topup
POS_THRESHOLD(s) == IF s = "build" THEN 15 ELSE 20
NEG_THRESHOLD(s) == IF s = "build" THEN 8 ELSE 9

TargetOf(s) == IF s = "build" THEN DESIRED_PER_CLASS ELSE TARGET_PER_CLASS

AllSorts(s) ==
    IF s = "build"
    THEN <<"revenue.asc", "popularity.asc", "vote_count.asc", "release_date.asc">>
    ELSE <<"revenue.asc", "vote_count.asc", "popularity.asc", "release_date.asc">>

SORTS(s) == SubSeq(AllSorts(s), 1, NSorts)

Ids == 1..MaxId

\* ids a discover entry can carry; 0 stands for a missing, null or zero id
EntryIds == 0..MaxId

\* HTTP status codes the service answers with
Statuses == {200, 401, 404, 429, 500}

\* budget and revenue of a detail response; a JSON field that may be absent
\* or null is the set of its values
Detail(b, r) == [budget |-> b, revenue |-> r]

DetailBodies ==
    {Detail({}, {20}), Detail({0}, {7}), Detail({10}, {}), Detail({10}, {0}),
     Detail({10}, {7}), Detail({10}, {10}), Detail({10}, {15}), Detail({10}, {20})}

\* ------------------------------------------------------------ sequences
Min2(a, b) == IF a < b THEN a ELSE b

\* all sequences over S of length at most n
RECURSIVE SeqsUpTo(_, _)
SeqsUpTo(S, n) ==
    IF n = 0 THEN {<<>>}
    ELSE LET shorter == SeqsUpTo(S, n - 1)
         IN  shorter \cup {Append(q, x) : q \in {p \in shorter : Len(p) = n - 1}, x \in S}

Shuffles_WithRepeats(s) ==
    LET n == Len(s)
    IN  {[i \in 1..n |-> s[p[i]]] : p \in [1..n -> 1..n]}

\* random.shuffle: every reordering of s
Shuffles(s) ==
    LET n == Len(s)
        P == {p \in [1..n -> 1..n] : \A i, j \in 1..n : i # j => p[i] # p[j]}
    IN  {[i \in 1..n |-> s[p[i]]] : p \in P}

\* ------------------------------------------------- python values and csv
PyInt(n) == [ty |-> "int", n |-> n, s |-> <<>>]
PyStr(c) == [ty |-> "str", n |-> 0, s |-> c]

\* str(int): decimal digits, most significant first
RECURSIVE FormatInt(_)
FormatInt(n) == IF n < 10 THEN <<n>> ELSE Append(FormatInt(n \div 10), n % 10)

\* int(str) for a non-empty string of digits
RECURSIVE ParseInt(_)
ParseInt(c) ==
    IF Len(c) = 1 THEN c[1]
    ELSE 10 * ParseInt(SubSeq(c, 1, Len(c) - 1)) + c[Len(c)]

\* the text csv.DictWriter writes for a value
Str(v) == IF v.ty = "int" THEN FormatInt(v.n) ELSE v.s

Fields == {"id", "budget", "revenue", "success"}

csv_row(row) == [f \in Fields |-> Str(row[f])]

Absent == [exists |-> FALSE, rows |-> <<>>]


write_csv_DropsLast(old, rs) ==
    IF rs = <<>> THEN old
    ELSE [exists |-> TRUE, rows |-> [i \in 1..(Len(rs) - 1) |-> csv_row(rs[i])]]

write_csv_Appends(old, rs) ==
    IF rs = <<>> THEN old
    ELSE [exists |-> TRUE, rows |-> old.rows \o [i \in 1..Len(rs) |-> csv_row(rs[i])]]

\* write_csv: nothing is written for an empty list, else the file is replaced
write_csv(old, rs) ==
    IF rs = <<>> THEN old
    ELSE [exists |-> TRUE, rows |-> [i \in 1..Len(rs) |-> csv_row(rs[i])]]

\* csv.DictReader: every cell comes back as a string
read_csv(file) ==
    [i \in 1..Len(file.rows) |-> [f \in Fields |-> PyStr(file.rows[i][f])]]

\* read_existing: the rows of the file and the ids of the rows that have one
read_existing(file) ==
    IF ~file.exists THEN [rows |-> <<>>, seen |-> {}]
    ELSE LET rs == read_csv(file)
         IN  [rows |-> rs,
              seen |-> {ParseInt(rs[i]["id"].s) : i \in {j \in 1..Len(rs) : rs[j]["id"].s # <<>>}}]

\* [r for r in full_rows if str(r.get("success")) == text]
RECURSIVE WithSuccess(_, _)
WithSuccess(rs, cell) ==
    IF rs = <<>> THEN <<>>
    ELSE IF Str(Head(rs)["success"]) = cell
         THEN <<Head(rs)>> \o WithSuccess(Tail(rs), cell)
         ELSE WithSuccess(Tail(rs), cell)

\* ------------------------------------------------------------ tmdb_get
Is401_Never(st) == FALSE

Is401(st) == st = 401

Retryable_Any4xx5xx(st) == 400 <= st /\ st < 600

Retryable(st) == st = 429 \/ (500 <= st /\ st < 600)

\* requests.Response.raise_for_status raises HTTPError for 4xx and 5xx
RaisesForStatus(st) == 400 <= st /\ st < 600

\* for attempt in range(retries): is there another iteration after this one
MoreAttempts_OneMore(attempt) == attempt + 1 <= retries

MoreAttempts(attempt) == attempt + 1 < retries

\* 2 ** attempt, the multiplier of the backoff base
RECURSIVE Pow2(_)
Pow2(a) == IF a = 0 THEN 1 ELSE 2 * Pow2(a - 1)

BackoffMultiplier_Linear(attempt) == attempt + 1

BackoffMultiplier(attempt) == Pow2(attempt)

\* sys.exit(message): the message goes to stderr and the exit status is 1
ExitCodeOf_Zero(message) == 0

ExitCodeOf(message) == 1

\* --------------------------------------------------------- classification
\* d.get(field) or 0
OrZero(v) == IF v = {} THEN 0 ELSE CHOOSE x \in v : TRUE

classify_roi_Strict(s, revenue, budget) ==
    IF revenue * 10 > POS_THRESHOLD(s) * budget THEN "positive"
    ELSE IF revenue * 10 < NEG_THRESHOLD(s) * budget THEN "negative"
    ELSE "None"

\* classify_roi on roi = revenue / budget, compared in tenths
classify_roi(s, revenue, budget) ==
    IF revenue * 10 >= POS_THRESHOLD(s) * budget THEN "positive"
    ELSE IF revenue * 10 <= NEG_THRESHOLD(s) * budget THEN "negative"
    ELSE "None"

make_row(mid, budget, revenue, label) ==
    [id |-> PyInt(mid), budget |-> PyInt(budget), revenue |-> PyInt(revenue),
     success |-> PyInt(IF label = "positive" THEN 1 ELSE 0)]

\* ------------------------------------------------------------- SeenSet
\* if not mid or mid in seen_ids: continue
SkipEntry_IgnoresSeen(mid, seen) == mid = 0

SkipEntry(mid, seen) == mid = 0 \/ mid \in seen

\* build adds the id before the detail call, topup only with the record
SeenOnCall(s, seen, mid) == IF s = "build" THEN seen \cup {mid} ELSE seen

SeenOnAppend_Forgets(s, seen, mid) == seen

SeenOnAppend(s, seen, mid) == IF s = "topup" THEN seen \cup {mid} ELSE seen

\* ------------------------------------------------ files found at startup
FileRow(id, budget, revenue, success) ==
    [id |-> FormatInt(id), budget |-> FormatInt(budget),
     revenue |-> FormatInt(revenue), success |-> FormatInt(success)]

\* the last row has no budget: nothing checks the rows of the file
ExistingRows == {FileRow(1, 10, 20, 1), FileRow(2, 10, 7, 0), FileRow(1, 0, 20, 1)}

\* a row of the file whose success cell is empty
Unlabelled(id, budget, revenue) ==
    [id |-> FormatInt(id), budget |-> FormatInt(budget),
     revenue |-> FormatInt(revenue), success |-> <<>>]

\* no file, a file of one row, or of two: one of each class, the same row
\* twice, a row without budget and a row without label
ExistingFiles ==
    {Absent} \cup {[exists |-> TRUE, rows |-> rs] :
                     rs \in {<<FileRow(1, 10, 20, 1)>>,
                             <<FileRow(2, 10, 7, 0)>>,
                             <<FileRow(1, 10, 20, 1), FileRow(2, 10, 7, 0)>>,
                             <<FileRow(1, 10, 20, 1), FileRow(1, 10, 20, 1)>>,
                             <<FileRow(1, 0, 20, 1), Unlabelled(2, 10, 7)>>}}

\* build only ever replaces the file: one file to replace is enough
BuildExisting == {Absent, [exists |-> TRUE, rows |-> <<FileRow(1, 10, 20, 1)>>]}

FileNames == {"movies_full.csv", "movies_full_topup.csv", "movies_balanced.csv", "movies_partial.csv"}

FULL_OUT(s) == IF s = "build" THEN "movies_full.csv" ELSE "movies_full_topup.csv"
BAL_OUT == "movies_balanced.csv"
PARTIAL_OUT == "movies_partial.csv"
EXISTING_FULL == "movies_full.csv"

\* ---------------------------------------------------------------- state
VARIABLES
    script,        \* which of the two harvesters runs
    run,           \* number of the run, 1 for the first
    pc,            \* control location of the process
    exit_code,     \* exit status once pc is "done" or "exit"
    log,           \* kinds of messages printed so far
    disk,          \* the four csv files
    disk0,         \* the files as they were when this run started
    year, sorts, si, page,   \* the three loops: year, sorts[si], page
    results,       \* entries of the current page not yet processed
    mid,           \* id of the entry whose detail is being fetched, 0 when none is
    seen_ids, rows, pos, neg, last_partial,
    full_rows,     \* topup: the rows read from the existing file
    caller,        \* who called tmdb_get: "cred", "discover" or "detail"
    attempt,       \* loop variable of tmdb_get
    outcome,       \* how the last tmdb_get ended: "none", "ok", "HTTPError"
    r_status,      \* r.status_code of the last response of the current tmdb_get, 0 before it
    gets,          \* number of session.get calls of the current tmdb_get
    backoffs,      \* multipliers of the backoff sleeps of the current tmdb_get
    unpaced,       \* a discover or detail call succeeded and no pacing sleep followed yet
    fetched,       \* ids movie_detail was called for in this run
    prev_ids,      \* ids recorded in the output files when this run started
    roi_case,      \* one application of classify_roi: budget, revenue and the label
    flush_case,    \* repeated write_csv of one list to one file
    sample_case    \* one application of the balanced sampler: pools, target, file

progVars == <<script, run, pc, exit_code, log, disk, disk0, year, sorts, si, page, results, mid,
              seen_ids, rows, pos, neg, last_partial, full_rows, caller, attempt, outcome,
              r_status, gets, backoffs, unpaced, fetched, prev_ids>>

unitVars == <<roi_case, flush_case, sample_case>>

vars == <<progVars, unitVars>>

loopVars == <<year, sorts, si, page>>
memVars == <<seen_ids, rows, pos, neg, last_partial, full_rows>>
httpVars == <<caller, attempt, outcome, r_status, gets, backoffs>>

\* the memory of a process that has just started
FreshMemory ==
    /\ pc = "start"
    /\ exit_code = 0
    /\ log = {}
    /\ year = YEAR_END
    /\ sorts = SORTS(script)
    /\ si = 1
    /\ page = 1
    /\ results = <<>>
    /\ mid = 0
    /\ seen_ids = {}
    /\ rows = <<>>
    /\ pos = <<>>
    /\ neg = <<>>
    /\ last_partial = 0
    /\ full_rows = <<>>
    /\ caller = "none"
    /\ attempt = 0
    /\ outcome = "none"
    /\ r_status = 0
    /\ gets = 0
    /\ backoffs = <<>>
    /\ unpaced = FALSE
    /\ fetched = {}

\* no function is being exercised on its own
NoRoiCase == [budget |-> 0, revenue |-> 0, label |-> "unset"]
NoFlushCase == [rows |-> <<>>, file |-> Absent, flushes |-> 0]
NoSampleCase == [pos |-> <<>>, neg |-> <<>>, target |-> 0, file |-> Absent, log |-> {}]

ProgInit ==
    /\ script \in Scripts
    /\ run = 1
    /\ disk \in {[f \in FileNames |-> IF f = EXISTING_FULL THEN e ELSE Absent] : e \in ExistingFiles}
    /\ script = "build" => disk[EXISTING_FULL] \in BuildExisting
    /\ disk0 = disk
    /\ prev_ids = {}
    /\ FreshMemory

Init ==
    /\ ProgInit
    /\ roi_case = NoRoiCase
    /\ flush_case = NoFlushCase
    /\ sample_case = NoSampleCase


\* ------------------------------------------------------- loop plumbing
\* time.sleep(SLEEP_BETWEEN_CALLS)
Pace == unpaced' = FALSE

\* entering tmdb_get
BeginCall(c) ==
    /\ pc' = "get"
    /\ caller' = c
    /\ attempt' = 0
    /\ outcome' = "none"
    /\ r_status' = 0
    /\ gets' = 0
    /\ backoffs' = <<>>

\* leaving tmdb_get: its locals are gone
EndCall ==
    /\ caller' = "none"
    /\ attempt' = 0
    /\ outcome' = "none"
    /\ r_status' = 0
    /\ gets' = 0
    /\ backoffs' = <<>>

\* the process has terminated abnormally: the files stay, and of its memory
\* only the seen set is kept on record
ProcessGone ==
    /\ year' = YEAR_END
    /\ sorts' = SORTS(script)
    /\ si' = 1
    /\ page' = 1
    /\ results' = <<>>
    /\ mid' = 0
    /\ UNCHANGED seen_ids
    /\ rows' = <<>>
    /\ pos' = <<>>
    /\ neg' = <<>>
    /\ last_partial' = 0
    /\ full_rows' = <<>>
    /\ unpaced' = FALSE
    /\ fetched' = {}

\* the step changes nothing in the memory of the controller
SameMemory == UNCHANGED <<loopVars, results, mid, memVars, fetched>>

GoNextSort_Continue ==
    IF page < PAGES_PER_YEAR
    THEN /\ pc' = "page"
         /\ page' = page + 1
         /\ UNCHANGED <<year, sorts, si>>
    ELSE IF si < Len(sorts)
    THEN /\ pc' = "page"
         /\ si' = si + 1
         /\ page' = 1
         /\ UNCHANGED <<year, sorts>>
    ELSE /\ pc' = "year"
         /\ year' = year - 1
         /\ UNCHANGED <<sorts, si, page>>

\* break out of the page loop: next sort of the year, or next year
GoNextSort ==
    IF si < Len(sorts)
    THEN /\ pc' = "page"
         /\ si' = si + 1
         /\ page' = 1
         /\ UNCHANGED <<year, sorts>>
    ELSE /\ pc' = "year"
         /\ year' = year - 1
         /\ UNCHANGED <<sorts, si, page>>

GoNextPage_Breaks == GoNextSort

GoNextPage_SamePage ==
    /\ pc' = "page"
    /\ UNCHANGED <<year, sorts, si, page>>

\* end of one iteration of the page loop
GoNextPage ==
    IF page < PAGES_PER_YEAR
    THEN /\ pc' = "page"
         /\ page' = page + 1
         /\ UNCHANGED <<year, sorts, si>>
    ELSE GoNextSort

\* the order of the sorts for one year
ShuffledSorts(s, cur) ==
    IF s = "build" THEN Shuffles(cur)
    ELSE {<<"revenue.asc">> \o q :
            q \in Shuffles(SelectSeq(SORTS(s), LAMBDA x : x # "revenue.asc"))}

TargetsMet_Either(s, p, n) == Len(p) >= TargetOf(s) \/ Len(n) >= TargetOf(s)

\* both pools have reached the target
TargetsMet(s, p, n) == Len(p) >= TargetOf(s) /\ Len(n) >= TargetOf(s)

NeedsSave_Late(n, last) == n - last > SAVE_EVERY_ROWS

\* len(rows) - last_partial >= SAVE_EVERY_ROWS
NeedsSave(n, last) == n - last >= SAVE_EVERY_ROWS

Min3_TwoPools(a, b, c) == Min2(a, b)

\* min(len(pos), len(neg), target)
Min3(a, b, c) == Min2(a, Min2(b, c))

\* if k == 0 (build), the else of if k > 0 (topup)
NoSample(k) == k = 0

\* the ids written in a file
IdsIn(file) == {ParseInt(file.rows[i]["id"]) : i \in {j \in 1..Len(file.rows) : file.rows[j]["id"] # <<>>}}

\* --------------------------------------------------------------- actions
\* main: the first thing a run does is the credential check
StartRun ==
    /\ pc = "start"
    /\ BeginCall("cred")
    /\ UNCHANGED <<unitVars, script, run, disk0, exit_code, log, disk, loopVars, results, mid, memVars,
                   unpaced, fetched, prev_ids>>

\* tmdb_get: one iteration of the retry loop, that is one HTTP GET
HttpGet ==
    /\ pc = "get"
    /\ \E st \in Statuses :
         /\ r_status' = st
         /\ gets' = gets + 1
         /\ IF Is401(st)
            THEN /\ pc' = "exit"
                 /\ exit_code' = ExitCodeOf("TMDB 401 Unauthorized")
                 /\ log' = log \cup {"401"}
                 /\ ProcessGone
                 /\ UNCHANGED <<attempt, outcome, backoffs>>
            ELSE IF Retryable(st)
            THEN /\ backoffs' = Append(backoffs, BackoffMultiplier(attempt))
                 /\ IF MoreAttempts(attempt)
                    THEN /\ attempt' = attempt + 1
                         /\ pc' = "get"
                         /\ outcome' = outcome
                    ELSE \* the loop is over: r.raise_for_status() on the last response
                         /\ attempt' = attempt
                         /\ pc' = "ret"
                         /\ outcome' = IF RaisesForStatus(st) THEN "HTTPError" ELSE "ok"
                 /\ SameMemory
                 /\ UNCHANGED <<exit_code, log, unpaced>>
            ELSE /\ pc' = "ret"
                 /\ outcome' = IF RaisesForStatus(st) THEN "HTTPError" ELSE "ok"
                 /\ unpaced' = IF RaisesForStatus(st) THEN unpaced
                               ELSE (unpaced \/ caller \in {"discover", "detail"})
                 /\ SameMemory
                 /\ UNCHANGED <<attempt, backoffs, exit_code, log>>
    /\ UNCHANGED <<unitVars, script, run, disk0, disk, caller, prev_ids>>

\* credential_sanity_check (build) and the head of main (topup)
CredReturn ==
    /\ pc = "ret"
    /\ caller = "cred"
    /\ IF outcome = "HTTPError"
       THEN \* nothing catches the HTTPError: traceback, exit status 1
            /\ pc' = "exit"
            /\ exit_code' = 1
            /\ log' = log \cup {"traceback"}
            /\ UNCHANGED memVars
       ELSE IF script = "build"
       THEN /\ \E has_images \in BOOLEAN :
                 IF r_status = 200 /\ has_images
                 THEN /\ pc' = "year"
                      /\ log' = log \cup {"cred_ok"}
                      /\ exit_code' = exit_code
                 ELSE /\ pc' = "exit"
                      /\ exit_code' = ExitCodeOf("TMDB credential check failed.")
                      /\ log' = log \cup {"cred_failed"}
            /\ UNCHANGED memVars
       ELSE LET ex == read_existing(disk[EXISTING_FULL])
            IN  /\ pc' = "year"
                /\ log' = log \cup {"cred_ok"}
                /\ exit_code' = exit_code
                /\ full_rows' = ex.rows
                /\ seen_ids' = ex.seen
                /\ pos' = WithSuccess(ex.rows, <<1>>)
                /\ neg' = WithSuccess(ex.rows, <<0>>)
                /\ rows' = ex.rows
                /\ last_partial' = Len(ex.rows)
    /\ IF pc' = "exit" THEN UNCHANGED httpVars ELSE EndCall
    /\ UNCHANGED <<unitVars, script, run, disk0, disk, loopVars, results, mid, unpaced, fetched, prev_ids>>

\* for year in range(YEAR_END, YEAR_START - 1, -1): shuffle the sorts
YearStart ==
    /\ pc = "year"
    /\ IF year < YEAR_START
       THEN /\ pc' = "finish"
            /\ UNCHANGED loopVars
       ELSE /\ pc' = "page"
            /\ sorts' \in ShuffledSorts(script, sorts)
            /\ si' = 1
            /\ page' = 1
            /\ year' = year
    /\ UNCHANGED <<unitVars, script, run, disk0, exit_code, log, disk, results, mid, memVars, httpVars,
                   unpaced, fetched, prev_ids>>

\* head of the page loop: topup tests the early stop here, then discover is called
PageStart ==
    /\ pc = "page"
    /\ IF script = "topup" /\ TargetsMet(script, pos, neg)
       THEN /\ pc' = "finish"
            /\ UNCHANGED httpVars
       ELSE BeginCall("discover")
    /\ UNCHANGED <<unitVars, script, run, disk0, exit_code, log, disk, loopVars, results, mid, memVars,
                   unpaced, fetched, prev_ids>>

\* discover_movies returned a page of at most n entries with ids in E, or
\* raised
DiscoverReturnOf(E, n) ==
    /\ pc = "ret"
    /\ caller = "discover"
    /\ IF outcome = "HTTPError"
       THEN /\ Pace
            /\ GoNextPage
            /\ results' = results
       ELSE /\ \E batch \in SeqsUpTo(E, n) :
                 /\ results' = batch
                 /\ IF batch = <<>>
                    THEN GoNextSort
                    ELSE /\ pc' = "entry"
                         /\ UNCHANGED loopVars
            /\ unpaced' = unpaced
    /\ EndCall
    /\ UNCHANGED <<unitVars, script, run, disk0, exit_code, log, disk, mid, memVars, fetched, prev_ids>>

DiscoverReturn == DiscoverReturnOf(EntryIds, MaxBatch)

\* for m in results: skip the entry or call movie_detail
NextEntry ==
    /\ pc = "entry"
    /\ IF results = <<>>
       THEN /\ GoNextPage
            /\ UNCHANGED <<results, mid, seen_ids, fetched, httpVars>>
       ELSE /\ results' = Tail(results)
            /\ IF SkipEntry(Head(results), seen_ids)
               THEN /\ pc' = "entry"
                    /\ UNCHANGED <<mid, seen_ids, fetched, httpVars>>
               ELSE /\ mid' = Head(results)
                    /\ seen_ids' = SeenOnCall(script, seen_ids, Head(results))
                    /\ fetched' = fetched \cup {Head(results)}
                    /\ BeginCall("detail")
            /\ UNCHANGED loopVars
    /\ UNCHANGED <<unitVars, script, run, disk0, exit_code, log, disk, rows, pos, neg, last_partial, full_rows,
                   unpaced, prev_ids>>

\* movie_detail raised HTTPError: sleep, next entry
DetailFailed ==
    /\ pc = "ret"
    /\ caller = "detail"
    /\ outcome = "HTTPError"
    /\ Pace
    /\ pc' = "entry"
    /\ mid' = 0
    /\ EndCall
    /\ UNCHANGED <<unitVars, script, run, disk0, exit_code, loopVars, results, fetched, prev_ids,
                   disk, log, memVars>>

\* movie_detail returned the body d: classify, append, save, early stop
DetailReturnWith(d) ==
    /\ pc = "ret"
    /\ caller = "detail"
    /\ outcome = "ok"
    /\ LET budget == OrZero(d.budget)
           revenue == OrZero(d.revenue)
           label == classify_roi(script, revenue, budget)
           row == make_row(mid, budget, revenue, label)
           rows2 == Append(rows, row)
           pos2 == IF label = "positive" THEN Append(pos, row) ELSE pos
           neg2 == IF label = "positive" THEN neg ELSE Append(neg, row)
           save == NeedsSave(Len(rows2), last_partial)
       IN  IF budget <= 0 \/ revenue <= 0 \/ label = "None"
           THEN /\ Pace
                /\ pc' = "entry"
                /\ UNCHANGED <<rows, pos, neg, seen_ids, last_partial, disk, log>>
           ELSE /\ rows' = rows2
                /\ seen_ids' = SeenOnAppend(script, seen_ids, mid)
                /\ pos' = pos2
                /\ neg' = neg2
                /\ disk' = IF save
                           THEN [disk EXCEPT ![PARTIAL_OUT] = write_csv(@, rows2)]
                           ELSE disk
                /\ last_partial' = IF save THEN Len(rows2) ELSE last_partial
                /\ log' = IF save THEN log \cup {"save"} ELSE log
                /\ IF script = "build" /\ TargetsMet(script, pos2, neg2)
                   THEN /\ pc' = "finish"
                        /\ unpaced' = unpaced
                   ELSE /\ Pace
                        /\ pc' = "entry"
    /\ mid' = 0
    /\ EndCall
    /\ UNCHANGED <<unitVars, script, run, disk0, exit_code, loopVars, results, full_rows, fetched, prev_ids>>

\* the rest of one iteration of `for m in results` after the call
DetailReturn == DetailFailed \/ \E d \in DetailBodies : DetailReturnWith(d)

\* the tail of main (build) and finish (topup): full output, balanced sample
Finish ==
    /\ pc = "finish"
    /\ pc' = "done"
    /\ exit_code' = 0
    /\ IF script = "build" /\ rows = <<>>
       THEN /\ log' = log \cup {"warn_norows"}
            /\ UNCHANGED <<disk, pos, neg>>
       ELSE LET k == Min3(Len(pos), Len(neg), TargetOf(script))
                full == [disk EXCEPT ![FULL_OUT(script)] = write_csv(@, rows)]
            IN  IF NoSample(k)
                THEN /\ disk' = full
                     /\ log' = log \cup {"done_full", "warn_balance"}
                     /\ UNCHANGED <<pos, neg>>
                ELSE \E p2 \in Shuffles(pos), n2 \in Shuffles(neg) :
                       \E balanced \in Shuffles(SubSeq(p2, 1, k) \o SubSeq(n2, 1, k)) :
                         /\ pos' = p2
                         /\ neg' = n2
                         /\ disk' = [full EXCEPT ![BAL_OUT] = write_csv(@, balanced)]
                         /\ log' = log \cup {"done_full", "done_balanced"}
    /\ UNCHANGED <<unitVars, script, run, disk0, loopVars, results, mid, seen_ids, rows, last_partial, full_rows,
                   httpVars, unpaced, fetched, prev_ids>>

\* the user starts either script again; only the files survive
Restart ==
    /\ pc \in {"done", "exit"}
    /\ run < MaxRuns
    /\ run' = run + 1
    /\ script' \in Scripts
    /\ prev_ids' = IdsIn(disk[PARTIAL_OUT]) \cup IdsIn(disk[FULL_OUT(script)])
    /\ pc' = "start"
    /\ exit_code' = 0
    /\ log' = {}
    /\ year' = YEAR_END
    /\ sorts' = SORTS(script')
    /\ si' = 1
    /\ page' = 1
    /\ results' = <<>>
    /\ mid' = 0
    /\ seen_ids' = {}
    /\ rows' = <<>>
    /\ pos' = <<>>
    /\ neg' = <<>>
    /\ last_partial' = 0
    /\ full_rows' = <<>>
    /\ caller' = "none"
    /\ attempt' = 0
    /\ outcome' = "none"
    /\ r_status' = 0
    /\ gets' = 0
    /\ backoffs' = <<>>
    /\ unpaced' = FALSE
    /\ fetched' = {}
    /\ disk' = disk
    /\ disk0' = disk
    /\ UNCHANGED unitVars

Next ==
    \/ StartRun
    \/ HttpGet
    \/ CredReturn
    \/ YearStart
    \/ PageStart
    \/ DiscoverReturn
    \/ NextEntry
    \/ DetailReturn
    \/ Finish

Spec == Init /\ [][Next]_vars

NextRestart == Next \/ Restart

\* a first run in an empty directory, then restarts
InitRestart == Init /\ \A f \in FileNames : disk[f] = Absent

SpecRestart == InitRestart /\ [][NextRestart]_vars

\* ------------------------------------------- a kill in the middle of a save
\* the columns in the order DictWriter writes them (the keys of the row)
FieldOrder == <<"id", "budget", "revenue", "success">>

\* the row r when the file ends inside it: after len characters of cell c
CutRow(r, c, len) ==
    [f \in Fields |->
       LET i == CHOOSE j \in 1..Len(FieldOrder) : FieldOrder[j] = f
       IN  IF i < c THEN r[f]
           ELSE IF i = c THEN SubSeq(r[f], 1, len)
           ELSE <<>>]

\* the file when only its first n rows were written whole and, for c > 0,
\* row n + 1 up to len characters of its cell c
Truncated(file, n, c, len) ==
    [exists |-> TRUE,
     rows |-> IF c = 0 THEN SubSeq(file.rows, 1, n)
              ELSE Append(SubSeq(file.rows, 1, n), CutRow(file.rows[n + 1], c, len))]

\* what a kill inside write_csv(path, rs) can leave at path: the old file
\* (killed before open, or nothing to write), the header alone, some rows,
\* some rows and the beginning of the next one, or the whole file (killed
\* after the last write reached the disk)
KilledWrite(old, rs) ==
    IF rs = <<>> THEN {old}
    ELSE LET new == write_csv(old, rs)
         IN  {old}
             \cup {Truncated(new, n, 0, 0) : n \in 0..Len(rs)}
             \cup UNION {UNION {{Truncated(new, n, c, len) :
                                   len \in (IF c = 1 THEN 1 ELSE 0)..Len(new.rows[n + 1][FieldOrder[c]])} :
                                 c \in 1..Len(FieldOrder)} :
                          n \in 0..(Len(rs) - 1)}

\* the process is killed inside write_csv(PARTIAL_OUT, rows)
CrashInFlush ==
    /\ pc = "ret"
    /\ caller = "detail"
    /\ outcome = "ok"
    /\ \E d \in DetailBodies :
         LET budget == OrZero(d.budget)
             revenue == OrZero(d.revenue)
             label == classify_roi(script, revenue, budget)
             row == make_row(mid, budget, revenue, label)
             rows2 == Append(rows, row)
         IN  /\ ~(budget <= 0 \/ revenue <= 0 \/ label = "None")
             /\ NeedsSave(Len(rows2), last_partial)
             /\ rows' = rows2
             /\ seen_ids' = SeenOnAppend(script, seen_ids, mid)
             /\ pos' = IF label = "positive" THEN Append(pos, row) ELSE pos
             /\ neg' = IF label = "positive" THEN neg ELSE Append(neg, row)
             /\ \E left \in KilledWrite(disk[PARTIAL_OUT], rows2) :
                  disk' = [disk EXCEPT ![PARTIAL_OUT] = left]
    /\ pc' = "exit"
    /\ exit_code' = 137
    /\ UNCHANGED <<unitVars, script, run, disk0, log, loopVars, results, mid, last_partial,
                   full_rows, httpVars, unpaced, fetched, prev_ids>>

\* the process is killed inside one of the two final write_csv calls of main
\* (build) or finish (topup): inside the one of the full output, or, the full
\* output written and reported, inside the one of the balanced sample. build
\* returns before the calls when nothing was harvested; topup makes the
\* first call also with an empty list
CrashInFinish ==
    /\ pc = "finish"
    /\ script = "build" => rows # <<>>
    /\ LET k == Min3(Len(pos), Len(neg), TargetOf(script))
           full == [disk EXCEPT ![FULL_OUT(script)] = write_csv(@, rows)]
       IN  \/ /\ \E left \in KilledWrite(disk[FULL_OUT(script)], rows) :
                    disk' = [disk EXCEPT ![FULL_OUT(script)] = left]
              /\ UNCHANGED <<log, pos, neg>>
           \/ /\ ~NoSample(k)
              /\ \E p2 \in Shuffles(pos), n2 \in Shuffles(neg) :
                   \E balanced \in Shuffles(SubSeq(p2, 1, k) \o SubSeq(n2, 1, k)) :
                     /\ pos' = p2
                     /\ neg' = n2
                     /\ \E left \in KilledWrite(full[BAL_OUT], balanced) :
                          disk' = [full EXCEPT ![BAL_OUT] = left]
              /\ log' = log \cup {"done_full"}
    /\ pc' = "exit"
    /\ exit_code' = 137
    /\ UNCHANGED <<unitVars, script, run, disk0, loopVars, results, mid, seen_ids, rows, last_partial,
                   full_rows, httpVars, unpaced, fetched, prev_ids>>

\* the process keeps running: every request is answered and no step waits
SpecFair == Init /\ [][Next]_vars /\ WF_vars(Next)

\* the same program with one more id and pages of one more entry
DiscoverReturnWide == DiscoverReturnOf(0..(MaxId + 1), MaxBatch + 1)

NextWide ==
    \/ StartRun
    \/ HttpGet
    \/ CredReturn
    \/ YearStart
    \/ PageStart
    \/ DiscoverReturnWide
    \/ NextEntry
    \/ DetailReturn
    \/ Finish

SpecWide == Init /\ [][NextWide]_vars

\* the same program with enough ids on offer for two saves in one run
DiscoverReturnDeep == DiscoverReturnOf(1..(2 * SaveBound), MaxBatch)

NextDeep ==
    \/ StartRun
    \/ HttpGet
    \/ CredReturn
    \/ YearStart
    \/ PageStart
    \/ DiscoverReturnDeep
    \/ NextEntry
    \/ DetailReturn
    \/ Finish

SpecDeep == Init /\ [][NextDeep]_vars

NextCrash == Next \/ CrashInFlush \/ CrashInFinish

SpecCrash == Init /\ [][NextCrash]_vars

\* --------------------------------------------- the functions on their own
\* roi_val = revenue / float(budget) if budget else None; classify_roi(roi_val)
ClassifyCase ==
    /\ roi_case.label = "unset"
    /\ roi_case' = [roi_case EXCEPT
                      !.label = IF roi_case.budget = 0 THEN "None"
                                ELSE classify_roi(script, roi_case.revenue, roi_case.budget)]
    /\ UNCHANGED <<progVars, flush_case, sample_case>>

InitClassify ==
    /\ ProgInit
    /\ \A f \in FileNames : disk[f] = Absent
    /\ roi_case \in {[budget |-> b, revenue |-> r, label |-> "unset"] :
                       b \in 1..MaxBudget, r \in 1..MaxRevenue}
    /\ flush_case = NoFlushCase
    /\ sample_case = NoSampleCase

SpecClassify == InitClassify /\ [][ClassifyCase]_vars

\* the rows harvesting can build for script s
HarvestRows(s) ==
    {make_row(i, OrZero(d.budget), OrZero(d.revenue),
              classify_roi(s, OrZero(d.revenue), OrZero(d.budget))) :
       i \in Ids,
       d \in {e \in DetailBodies :
                /\ OrZero(e.budget) > 0
                /\ OrZero(e.revenue) > 0
                /\ classify_roi(s, OrZero(e.revenue), OrZero(e.budget)) # "None"}}

\* write_csv(path, rows) once more, with the same list
FlushCase ==
    /\ flush_case.flushes < MaxFlushes
    /\ flush_case' = [flush_case EXCEPT !.file = write_csv(@, flush_case.rows),
                                          !.flushes = @ + 1]
    /\ UNCHANGED <<progVars, roi_case, sample_case>>

InitFlush ==
    /\ ProgInit
    /\ \A f \in FileNames : disk[f] = Absent
    /\ roi_case = NoRoiCase
    /\ flush_case \in {[rows |-> rs, file |-> e, flushes |-> 0] :
                         rs \in SeqsUpTo(HarvestRows(script), MaxFlushRows), e \in ExistingFiles}
    /\ sample_case = NoSampleCase

SpecFlush == InitFlush /\ [][FlushCase]_vars

\* targets the sampler is tried with: below, at and above the pool sizes
SampleTargets == {1, 2}

\* a pool of n records of one class, ids from first on
PoolOf(first, n, label) ==
    [i \in 1..n |-> make_row(first + i - 1, 10, IF label = "positive" THEN 20 ELSE 7, label)]

\* k = min(len(pos), len(neg), target); if k is 0 the warning, else
\* random.shuffle(pos); random.shuffle(neg); balanced = pos[:k] + neg[:k];
\* random.shuffle(balanced); write_csv(BAL_OUT, balanced, header)
SampleCase ==
    /\ sample_case.log = {}
    /\ LET k == Min3(Len(sample_case.pos), Len(sample_case.neg), sample_case.target)
       IN  IF NoSample(k)
           THEN sample_case' = [sample_case EXCEPT !.log = {"warn_balance"}]
           ELSE \E p2 \in Shuffles(sample_case.pos), n2 \in Shuffles(sample_case.neg) :
                  \E balanced \in Shuffles(SubSeq(p2, 1, k) \o SubSeq(n2, 1, k)) :
                    sample_case' = [sample_case EXCEPT !.pos = p2,
                                                        !.neg = n2,
                                                        !.file = write_csv(@, balanced),
                                                        !.log = {"done_balanced"}]
    /\ UNCHANGED <<progVars, roi_case, flush_case>>

InitSample ==
    /\ ProgInit
    /\ \A f \in FileNames : disk[f] = Absent
    /\ roi_case = NoRoiCase
    /\ flush_case = NoFlushCase
    /\ sample_case \in {[pos |-> PoolOf(1, a, "positive"), neg |-> PoolOf(MaxPool + 1, b, "negative"),
                          target |-> t, file |-> Absent, log |-> {}] :
                           a \in 0..MaxPool, b \in 0..MaxPool, t \in SampleTargets}

SpecSample == InitSample /\ [][SampleCase]_vars

TypeOK ==
    /\ pc \in {"start", "get", "ret", "year", "page", "entry", "finish", "done", "exit"}
    /\ seen_ids \subseteq Ids
    /\ attempt \in 0..retries


\* ---------------------------------------------------------------- claims
\* no two rows carry the same text in the id column
NoDuplicateIds(rs) ==
    \A i, j \in 1..Len(rs) : i # j => rs[i]["id"] # rs[j]["id"]

\* a 4xx status other than 401 and 429
Other4xx(st) == 400 <= st /\ st < 500 /\ st # 401 /\ st # 429

\* movie_detail is being called for id i in this step
DetailCallStarts(i) == pc = "entry" /\ pc' = "get" /\ caller' = "detail" /\ mid' = i

\* C1: within one run movie_detail is called at most once per identifier,
\* whatever the outcome of the call was.
C1_AtMostOneDetailFetch == [][\A i \in fetched : ~DetailCallStarts(i)]_vars

\* C2: the accumulated rows never hold two records with the same identifier,
\* and neither does the full output the run writes; for topup, given that
\* the existing file it loads holds no duplicate identifier.
C2_NoDuplicateIds ==
    (script = "topup" => NoDuplicateIds(disk0[EXISTING_FULL].rows))
    => /\ NoDuplicateIds([i \in 1..Len(rows) |-> csv_row(rows[i])])
       /\ (pc = "done" /\ rows # <<>>) => NoDuplicateIds(disk[FULL_OUT(script)].rows)

C2_Witness ==
    /\ pc = "done"
    /\ script = "topup"
    /\ full_rows # <<>>
    /\ Len(rows) > Len(full_rows)
    /\ fetched # {}
    /\ Len(disk[FULL_OUT(script)].rows) = Len(rows)

\* C3: seen_ids only grows during a run, and movie_detail is never called
\* for an identifier that is in seen_ids.
C3_SeenSetOnlyGrows ==
    [][/\ seen_ids \subseteq seen_ids'
       /\ \A i \in seen_ids : ~DetailCallStarts(i)]_vars

C3_Witness ==
    /\ pc = "entry"
    /\ results # <<>>
    /\ Head(results) \in seen_ids
    /\ Head(results) \in fetched

\* C4: a run started after an earlier run left a checkpoint or a full output
\* has every identifier recorded there in seen_ids once its startup is over,
\* and calls movie_detail for none of them.
C4_RestartSkipsRecorded ==
    /\ pc \in {"year", "page", "entry"} => prev_ids \subseteq seen_ids
    /\ (pc = "get" /\ caller = "detail") => mid \notin prev_ids

\* C5: one tmdb_get issues at most `retries` GETs, issues a further GET only
\* after a 429 or 5xx, and raises an HTTP error when every attempt was
\* answered with 429 or 5xx.
C5_BoundedRetry ==
    /\ gets <= retries
    /\ (pc = "get" /\ gets > 0) => Retryable(r_status)
    /\ (pc = "ret" /\ gets = retries /\ Retryable(r_status)) => outcome = "HTTPError"

C5_Witness ==
    /\ pc = "ret"
    /\ gets = retries
    /\ Retryable(r_status)
    /\ outcome = "HTTPError"

\* C6: a 401 on any attempt of any call ends the process at once: non-zero
\* exit status, a diagnostic, the 401 never reaches the controller's
\* except clause, and no request or file write follows.
C6_UnauthorizedIsFatal ==
    /\ [](r_status = 401 => (pc = "exit" /\ exit_code # 0 /\ "401" \in log))
    /\ [][(pc = "get" /\ r_status' = 401) => disk' = disk]_vars
    /\ [][pc = "exit" => (gets' = gets /\ disk' = disk)]_vars

C6_Witness ==
    /\ pc = "exit"
    /\ r_status = 401
    /\ caller = "detail"
    /\ attempt > 0
    /\ seen_ids # {}
    /\ "401" \in log

\* C7: when the credential check is answered with 401 the process exits
\* with a non-zero status and every file is as it was before the run.
C7_RejectedCredentialWritesNothing ==
    (caller = "cred" /\ r_status = 401)
    => (pc = "exit" /\ exit_code # 0 /\ disk = disk0)

C7_Witness ==
    /\ pc = "exit"
    /\ caller = "cred"
    /\ r_status = 401
    /\ gets = 1
    /\ disk0[EXISTING_FULL].exists

\* C8 as stated: a 4xx other than 401 and 429 is retried, and the error
\* reaches the caller only after all `retries` attempts.
C8_Other4xxRetried ==
    (pc = "ret" /\ outcome = "HTTPError" /\ Other4xx(r_status)) => gets = retries

\* C8 amended: a 4xx other than 401 and 429 is not retried: tmdb_get raises
\* the HTTP error on that attempt, with no backoff sleep and no further GET.
C8_Other4xxRaisedAtOnce ==
    Other4xx(r_status)
    => (pc \in {"ret", "exit"} /\ outcome = "HTTPError" /\ Len(backoffs) = gets - 1)

C8_Witness ==
    /\ pc = "ret"
    /\ Other4xx(r_status)
    /\ gets = 1
    /\ outcome = "HTTPError"

\* C9: no HTTP request is issued after a successful discover or detail call
\* unless a pacing sleep happened in between.
C9_PacedAfterSuccess == pc = "get" => ~unpaced

\* C10: when movie_detail fails with the retry budget spent, the loop goes
\* on with the next entry and the identifier is not in seen_ids afterwards.
C10_FailedFetchNotSeen ==
    [][(pc = "ret" /\ caller = "detail" /\ outcome = "HTTPError" /\ gets = retries)
         => (pc' = "entry" /\ mid \notin seen_ids')]_vars

\* the csv text of a list of rows
CsvRows(rs) == [i \in 1..Len(rs) |-> csv_row(rs[i])]

\* the detail body d is one the harvester is to discard: budget or revenue
\* missing or not positive, or the ratio strictly between the thresholds
Discards(s, d) ==
    \/ OrZero(d.budget) <= 0
    \/ OrZero(d.revenue) <= 0
    \/ /\ NEG_THRESHOLD(s) * OrZero(d.budget) < OrZero(d.revenue) * 10
       /\ OrZero(d.revenue) * 10 < POS_THRESHOLD(s) * OrZero(d.budget)

\* C11: when the detail of an entry is one to discard, no record is created
\* and the identifier is not in seen_ids afterwards.
C11_DiscardedNotSeen ==
    [][\A d \in DetailBodies :
         (Discards(script, d) /\ DetailReturnWith(d))
         => (rows' = rows /\ mid \notin seen_ids')]_vars

\* C12: for budget > 0 and revenue > 0 the label is positive exactly when
\* revenue >= POS_THRESHOLD * budget, negative exactly when
\* revenue <= NEG_THRESHOLD * budget, and discard otherwise; the two
\* boundaries are inclusive and no input gets both labels.
C12_ClassifyInclusive ==
    roi_case.label # "unset"
    => LET b == roi_case.budget
           r == roi_case.revenue
           isPos == r * 10 >= POS_THRESHOLD(script) * b
           isNeg == r * 10 <= NEG_THRESHOLD(script) * b
       IN  /\ roi_case.label = "positive" <=> isPos
           /\ roi_case.label = "negative" <=> isNeg
           /\ roi_case.label = "None" <=> (~isPos /\ ~isNeg)
           /\ ~(isPos /\ isNeg)

C12_Witness ==
    /\ roi_case.label = "negative"
    /\ roi_case.revenue * 10 = NEG_THRESHOLD(script) * roi_case.budget
    /\ script = "build"

\* budget 10 and revenue 15, in millions
Ratio15 == Detail({10}, {15})

HasRatio15(file) ==
    \E i \in 1..Len(file.rows) :
        file.rows[i]["budget"] = FormatInt(10) /\ file.rows[i]["revenue"] = FormatInt(15)

\* C13: an entry with budget 10,000,000 and revenue 15,000,000 creates no
\* record, and no partial, full or balanced file holds such a row.
C13_Ratio15Discarded ==
    /\ [][DetailReturnWith(Ratio15) => rows' = rows]_vars
    /\ [](\A f \in {PARTIAL_OUT, FULL_OUT(script), BAL_OUT} : ~HasRatio15(disk[f]))

\* the budget and the revenue cell of a csv row are both positive numbers
PositiveMoney(cells) == ParseInt(cells["budget"]) > 0 /\ ParseInt(cells["revenue"]) > 0

\* C14: every accumulated record, preloaded ones included, and every row of
\* a file this run wrote has budget > 0 and revenue > 0; a detail with a
\* budget or revenue that is missing or not positive creates no record.
C14_PositiveBudgetAndRevenue ==
    /\ [](\A i \in 1..Len(rows) : PositiveMoney(csv_row(rows[i])))
    /\ [](\A f \in {PARTIAL_OUT, FULL_OUT(script), BAL_OUT} :
            disk[f] # disk0[f]
            => \A i \in 1..Len(disk[f].rows) : PositiveMoney(disk[f].rows[i]))
    /\ [][\A d \in DetailBodies :
            ((OrZero(d.budget) <= 0 \/ OrZero(d.revenue) <= 0) /\ DetailReturnWith(d))
            => rows' = rows]_vars

\* C15: whenever the partial file changes, a kill in the middle of the save
\* included, its new content is the header and every record of the list
\* being saved.
C15_CheckpointComplete ==
    [][disk'[PARTIAL_OUT] # disk[PARTIAL_OUT]
         => /\ rows' # <<>>
            /\ disk'[PARTIAL_OUT] = [exists |-> TRUE, rows |-> CsvRows(rows')]]_vars

\* C16: the partial file is written in a step exactly when that step appends
\* a record that brings the number of records appended since the last save
\* to SAVE_EVERY_ROWS; between steps fewer than SAVE_EVERY_ROWS records are
\* unsaved.
C16_FlushCadence ==
    /\ [][disk'[PARTIAL_OUT] # disk[PARTIAL_OUT]
            <=> /\ caller = "detail"
                /\ Len(rows') = Len(rows) + 1
                /\ Len(rows') - last_partial = SAVE_EVERY_ROWS]_vars
    /\ [](Len(rows) - last_partial < SAVE_EVERY_ROWS)

C16_Witness ==
    /\ pc = "entry"
    /\ "save" \in log
    /\ last_partial = Len(rows)
    /\ Len(disk[PARTIAL_OUT].rows) = SAVE_EVERY_ROWS

\* C17: once this run has written the partial file, the file holds the first
\* last_partial records of rows, in order; and when the run is done every
\* row of the partial file is in the full output.
C17_CheckpointIsPrefix ==
    (disk[PARTIAL_OUT] # disk0[PARTIAL_OUT] /\ pc # "exit")
    => /\ last_partial <= Len(rows)
       /\ disk[PARTIAL_OUT].rows = CsvRows(SubSeq(rows, 1, last_partial))
       /\ pc = "done"
          => \A i \in 1..Len(disk[PARTIAL_OUT].rows) :
                \E j \in 1..Len(disk[FULL_OUT(script)].rows) :
                    disk[FULL_OUT(script)].rows[j] = disk[PARTIAL_OUT].rows[i]

\* a record was appended after the last save: the partial file lacks it and
\* the full output has it
C17_Witness ==
    /\ pc = "done"
    /\ disk[PARTIAL_OUT].exists
    /\ Len(disk[PARTIAL_OUT].rows) = last_partial
    /\ last_partial < Len(rows)
    /\ Len(disk[FULL_OUT(script)].rows) = Len(rows)

\* C18: writing the same list to the file a second time leaves the file as
\* the first write left it.
C18_FlushIdempotent ==
    [][flush_case.flushes >= 1 => flush_case'.file = flush_case.file]_vars

C18_Witness ==
    /\ flush_case.flushes = 2
    /\ Len(flush_case.rows) = 2
    /\ Len(flush_case.file.rows) = 2

\* how many rows of a csv file carry this text in the success column
CountSuccess(rs, cell) == Cardinality({i \in 1..Len(rs) : rs[i]["success"] = cell})

\* how many times the row occurs in the list
CountRow(rs, row) == Cardinality({i \in 1..Len(rs) : rs[i] = row})

\* C19: when the sampler has run on two non-empty pools, the balanced file
\* holds 2k rows, k with success 1 and k with success 0, for
\* k = min(len(pos), len(neg), target), each row taken from the pool of its
\* class and no pool entry taken twice.
C19_BalancedSample ==
    (sample_case.log # {} /\ sample_case.pos # <<>> /\ sample_case.neg # <<>>)
    => LET k == Min2(Min2(Len(sample_case.pos), Len(sample_case.neg)), sample_case.target)
           bal == sample_case.file.rows
       IN  /\ sample_case.file.exists
           /\ "done_balanced" \in sample_case.log
           /\ Len(bal) = 2 * k
           /\ CountSuccess(bal, <<1>>) = k
           /\ CountSuccess(bal, <<0>>) = k
           /\ \A i \in 1..Len(bal) :
                 LET pool == IF bal[i]["success"] = <<1>>
                             THEN CsvRows(sample_case.pos) ELSE CsvRows(sample_case.neg)
                 IN  /\ CountRow(pool, bal[i]) >= 1
                     /\ CountRow(bal, bal[i]) <= CountRow(pool, bal[i])

\* pools of 3 and 2 with target 2: two of the three, and both of the two
C19_Witness ==
    /\ sample_case.log # {}
    /\ Len(sample_case.pos) = 3
    /\ Len(sample_case.neg) = 2
    /\ sample_case.target = 2
    /\ Len(sample_case.file.rows) = 4

\* C20 as stated: when the run is done with a pool empty, the balanced file
\* is untouched, the balance warning was printed, and the full output holds
\* the accumulated records if there are any.
C20_EmptyPoolWarns ==
    (pc = "done" /\ (pos = <<>> \/ neg = <<>>))
    => /\ disk[BAL_OUT] = disk0[BAL_OUT]
       /\ "warn_balance" \in log
       /\ rows # <<>> => disk[FULL_OUT(script)] = [exists |-> TRUE, rows |-> CsvRows(rows)]

\* C21: at the end of a run, with or without accumulated records, the full
\* output exists and holds every accumulated record, and the balanced file
\* was written by this run or the balance warning was printed.
C21_DoneWritesOutputs ==
    pc = "done"
    => /\ disk[FULL_OUT(script)] = [exists |-> TRUE, rows |-> CsvRows(rows)]
       /\ \/ "done_balanced" \in log /\ disk[BAL_OUT].exists
          \/ "warn_balance" \in log

\* C22: from the first state in which both pools have reached the target, no
\* discover or detail request is issued and neither pool grows.
C22_StopsAtTarget ==
    [][TargetsMet(script, pos, neg)
         => /\ pc' # "get"
            /\ Len(pos') = Len(pos)
            /\ Len(neg') = Len(neg)]_vars

\* the sequence is a reordering of the sequence of distinct elements q
IsPermutation(p, q) ==
    /\ Len(p) = Len(q)
    /\ \A i \in 1..Len(q) : \E j \in 1..Len(p) : p[j] = q[i]

\* C23: in every year the sorts are a reordering of the configured sorts, and
\* the first sort passed to discover is revenue.asc.
C23_RevenueAscFirst ==
    /\ IsPermutation(sorts, SORTS(script))
    /\ (pc = "get" /\ caller = "discover" /\ si = 1) => sorts[si] = "revenue.asc"

\* the step moves from the current (year, sort) pair to the next one
NextPair ==
    \/ pc' = "page" /\ year' = year /\ si' = si + 1 /\ page' = 1
    \/ pc' = "year" /\ year' = year - 1 /\ si = Len(sorts)

\* C24: discover is only called for a page in 1..PAGES_PER_YEAR of a year in
\* YEAR_START..YEAR_END; while the process lives the page changes only to
\* the next page of the same pair or to page 1 of another pair, the sort only
\* to the next sort of the year or to the first of a year, the year only to
\* the year before; and an empty page is followed by the next pair.
C24_PageOrder ==
    /\ []((pc = "get" /\ caller = "discover")
           => /\ page \in 1..PAGES_PER_YEAR
              /\ si \in 1..Len(sorts)
              /\ year \in YEAR_START..YEAR_END)
    /\ [][pc' # "exit"
           => /\ page' # page => \/ page' = page + 1 /\ si' = si /\ year' = year
                                 \/ page' = 1
              /\ si' # si => \/ si' = si + 1 /\ year' = year /\ page' = 1
                             \/ pc = "year" /\ si' = 1
              /\ year' # year => year' = year - 1
              /\ sorts' # sorts => pc = "year"]_vars
    /\ [][(pc = "ret" /\ caller = "discover" /\ outcome = "ok" /\ pc' # "entry")
           => NextPair]_vars

C24_Witness ==
    /\ pc = "get"
    /\ caller = "discover"
    /\ page = PAGES_PER_YEAR
    /\ si = Len(sorts)
    /\ year = YEAR_START
    /\ rows # <<>>

\* C25: every accumulated record, preloaded ones included, is in exactly one
\* pool, the positive pool holding the records labelled 1 and the negative
\* pool those labelled 0; and while harvesting a pool changes only by the
\* append of the record just appended to rows.
C25_OnePoolPerRecord ==
    /\ [](/\ Len(rows) = Len(pos) + Len(neg)
          /\ \A i \in 1..Len(rows) :
                CountRow(pos, rows[i]) + CountRow(neg, rows[i]) = CountRow(rows, rows[i])
          /\ \A j \in 1..Len(pos) : Str(pos[j]["success"]) = <<1>>
          /\ \A k \in 1..Len(neg) : Str(neg[k]["success"]) = <<0>>)
    /\ [][(pc' # "exit" /\ caller # "cred" /\ pc # "finish")
           => /\ \/ pos' = pos
                 \/ Len(rows') = Len(rows) + 1 /\ pos' = Append(pos, rows'[Len(rows')])
              /\ \/ neg' = neg
                 \/ Len(rows') = Len(rows) + 1 /\ neg' = Append(neg, rows'[Len(rows')])
              /\ pos' = pos \/ neg' = neg]_vars

\* C26: in one tmdb_get the i-th backoff sleep has multiplier 2^(i-1), and
\* there are as many backoff sleeps as 429/5xx responses: one after every
\* such response, the last one included, and none after any other response.
C26_BackoffSchedule ==
    /\ \A i \in 1..Len(backoffs) : backoffs[i] = 2 ^ (i - 1)
    /\ gets > 0 => Len(backoffs) = IF Retryable(r_status) THEN gets ELSE gets - 1
    /\ (pc = "get" /\ gets > 0) => Retryable(r_status)

C26_Witness ==
    /\ pc = "ret"
    /\ outcome = "HTTPError"
    /\ backoffs = <<1, 2, 4>>

\* the ratio of the detail body lies strictly between the two thresholds
MiddleBand(s, d) ==
    /\ OrZero(d.budget) > 0
    /\ OrZero(d.revenue) > 0
    /\ NEG_THRESHOLD(s) * OrZero(d.budget) < OrZero(d.revenue) * 10
    /\ OrZero(d.revenue) * 10 < POS_THRESHOLD(s) * OrZero(d.budget)

NoMoney(d) == OrZero(d.budget) <= 0 \/ OrZero(d.revenue) <= 0

\* C27 as stated: after a discard for a ratio in the middle band the id is
\* not in seen_ids, after a discard for a missing or non-positive budget or
\* revenue it is.
C27_DiscardReasonsDiffer ==
    [][\A d \in DetailBodies :
         DetailReturnWith(d)
         => /\ MiddleBand(script, d) => mid \notin seen_ids'
            /\ NoMoney(d) => mid \in seen_ids']_vars

\* the largest number of discover calls the three loops allow
MaxDiscoverCalls(s) == (YEAR_END - YEAR_START + 1) * Len(SORTS(s)) * PAGES_PER_YEAR

\* the place of (year, sort, page) in the order of the loops, 1 for the
\* first triple; at the head of the year loop, the triples of earlier years
PlaceInLoops ==
    IF pc = "year"
    THEN (YEAR_END - year) * Len(sorts) * PAGES_PER_YEAR
    ELSE ((YEAR_END - year) * Len(sorts) + (si - 1)) * PAGES_PER_YEAR + page

\* C28: a run ends, at Done or at the fatal exit; discover is only called
\* for one of the (years x sorts x pages) triples and every arrival at the
\* head of the page loop is at a later triple than before, so that no triple
\* is passed to discover twice; and no call makes more than 3 requests.
C28_RunTerminates ==
    /\ <>(pc \in {"done", "exit"})
    /\ []((pc = "get" /\ caller = "discover")
           => PlaceInLoops \in 1..MaxDiscoverCalls(script))
    /\ [][pc' = "page" => PlaceInLoops' > PlaceInLoops]_vars
    /\ [](gets <= retries)

C28_Witness ==
    /\ pc = "done"
    /\ year < YEAR_START
    /\ script = "topup"
    /\ rows # <<>>

\* C29: when discover raises an HTTP error for page p, the next page of the
\* same pair is next if p is not the last page, else the next pair; the
\* place in the loops moves forward for good, and rows, pools, seen_ids and
\* the files are as before.
C29_FailedPageSkipped ==
    [][(pc = "ret" /\ caller = "discover" /\ outcome = "HTTPError")
         => /\ IF page < PAGES_PER_YEAR
               THEN pc' = "page" /\ page' = page + 1 /\ si' = si /\ year' = year /\ sorts' = sorts
               ELSE NextPair
            /\ PlaceInLoops' > PlaceInLoops \/ pc' = "year"
            /\ UNCHANGED <<rows, pos, neg, seen_ids, disk, last_partial>>]_vars

C29_Witness ==
    /\ pc = "ret"
    /\ caller = "discover"
    /\ outcome = "HTTPError"
    /\ Other4xx(r_status)
    /\ page < PAGES_PER_YEAR
    /\ rows # <<>>

\* C30: a run that is done with both pools at the target or above has a
\* balanced file of 2 * target rows, target of each class; and when build
\* stops early, the pool that received the last record holds exactly target
\* records.
C30_EarlyStopSample ==
    /\ []((pc = "done" /\ TargetsMet(script, pos, neg) /\ TargetOf(script) >= 1)
           => /\ Len(disk[BAL_OUT].rows) = 2 * TargetOf(script)
              /\ CountSuccess(disk[BAL_OUT].rows, <<1>>) = TargetOf(script)
              /\ CountSuccess(disk[BAL_OUT].rows, <<0>>) = TargetOf(script))
    /\ [][(script = "build" /\ pc = "ret" /\ pc' = "finish")
           => /\ TargetsMet(script, pos', neg')
              /\ Len(pos') > Len(pos) => Len(pos') = TargetOf(script)
              /\ Len(neg') > Len(neg) => Len(neg') = TargetOf(script)]_vars

C30_Witness ==
    /\ pc = "done"
    /\ script = "build"
    /\ year >= YEAR_START
    /\ TargetsMet(script, pos, neg)
    /\ Len(disk[BAL_OUT].rows) = 2 * TargetOf(script)

====
